---- MODULE Spec2Model ----
(***************************************************************************)
(* Model of aiohttp_jinja2/helpers.py: the two template context functions  *)
(* url_for and static_url.                                                 *)
(*                                                                         *)
(* Python strings are sequences of one-character strings, dicts are        *)
(* functions (or, where insertion order matters, sequences of pairs), and  *)
(* each function body is cut into steps at the places where it reads the   *)
(* application, calls the router, emits a warning, raises or returns.      *)
(***************************************************************************)
EXTENDS Integers, Sequences, FiniteSets, TLC

VARIABLES
    context,        \* the jinja2 context: context["app"] is the application
    pc,             \* position of the running call
    fn,             \* which helper is running / ran last
    args,           \* the arguments of the running call
    parts_clean,    \* url_for: the local dict parts_clean
    idx,            \* url_for: position of the for loop in parts
    url,            \* url_for: the local url
    static_root,    \* static_url: the local static_url
    result,         \* the returned value of the last call
    exc,            \* the exception the last call raised, "" if none
    warnings,       \* the warnings emitted so far, oldest first
    routerLog,      \* history: every use the running call made of app.router
    configReads,    \* history: the keys the running call looked up in the app
    warnings0,      \* history: Len(warnings) when the running call started
    calls           \* number of calls started

vars == <<context, pc, fn, args, parts_clean, idx, url, static_root, result,
          exc, warnings, routerLog, configReads, warnings0, calls>>

-----------------------------------------------------------------------------
(* Bounds of the model *)

MaxRootLen == 3
MaxPathLen == 3
MaxParts == 2
MaxCalls == 2

-----------------------------------------------------------------------------
(* Python strings *)

Slash == "/"
Alphabet == {Slash, "a"}

StringsUpTo(n) == UNION {[1..k -> Alphabet] : k \in 0..n}

RECURSIVE rstrip_len(_)
\* length of s once every trailing "/" is removed
rstrip_len(s) ==
    IF Len(s) > 0 /\ s[Len(s)] = Slash
    THEN rstrip_len(SubSeq(s, 1, Len(s) - 1))
    ELSE Len(s)

rstrip_once(s) ==
    IF Len(s) > 0 /\ s[Len(s)] = Slash THEN SubSeq(s, 1, Len(s) - 1) ELSE s

\* str.rstrip("/")
rstrip(s) == SubSeq(s, 1, rstrip_len(s))

RECURSIVE lstrip_from(_, _)
\* first position at or after i of s that holds no "/"
lstrip_from(s, i) ==
    IF i <= Len(s) /\ s[i] = Slash THEN lstrip_from(s, i + 1) ELSE i

lstrip_once(s) ==
    IF Len(s) > 0 /\ s[1] = Slash THEN SubSeq(s, 2, Len(s)) ELSE s

\* str.lstrip("/")
lstrip(s) == SubSeq(s, lstrip_from(s, 1), Len(s))

format_plain(root, path) == root \o path

\* "{}/{}".format(root, path)
format(root, path) == root \o <<Slash>> \o path

\* the expression of line 87
join(root, path) == format(rstrip(root), lstrip(path))

Digit == <<"0", "1", "2", "3", "4", "5", "6", "7", "8", "9">>

RECURSIVE digits(_)
digits(n) ==
    IF n < 10 THEN <<Digit[n + 1]>>
    ELSE digits(n \div 10) \o <<Digit[(n % 10) + 1]>>

\* str(n) for an int n
int_str(n) == IF n < 0 THEN <<"-">> \o digits(-n) ELSE digits(n)

-----------------------------------------------------------------------------
(* Python values passed as keyword arguments.  t is the value's exact type: *)
(* "strsub" is a subclass of str (such as markupsafe.Markup), "bool" and    *)
(* "intsub" are subclasses of int, "none" is NoneType.                      *)

StrVal(s) == [t |-> "str", s |-> s, n |-> 0]
StrSubVal(s) == [t |-> "strsub", s |-> s, n |-> 0]
IntVal(n) == [t |-> "int", s |-> <<>>, n |-> n]
BoolVal(b) == [t |-> "bool", s |-> <<>>, n |-> IF b THEN 1 ELSE 0]
IntSubVal(n) == [t |-> "intsub", s |-> <<>>, n |-> n]
NoneVal == [t |-> "none", s |-> <<>>, n |-> 0]

Values ==
    {StrVal(<<"a">>), StrSubVal(<<"/", "a">>), IntVal(-12),
     BoolVal(TRUE), IntSubVal(1), NoneVal}

isinstance_str_any(val) == val.t \in {"str", "strsub", "none"}

\* isinstance(val, str)
isinstance_str(val) == val.t \in {"str", "strsub"}

isinstance_int(val) == val.t \in {"int", "bool", "intsub"}

\* type(val) is int
type_is_int(val) == val.t = "int"

\* str(val), for the values that reach it
str(val) == IF isinstance_str(val) THEN val.s ELSE int_str(val.n)

-----------------------------------------------------------------------------
(* Dicts *)

EmptyMap == [k \in {} |-> <<>>]

\* d[key] = v
Put(d, key, v) == [k \in DOMAIN d \cup {key} |-> IF k = key THEN v ELSE d[k]]

-----------------------------------------------------------------------------
(* yarl.URL and the application's router, as url_for uses them.  A URL is   *)
(* the path the resource built (the route and the parameters it was given)  *)
(* and a query string, a sequence of key/value pairs.                       *)

NoPath == [name |-> "", params |-> EmptyMap]
NoURL == [path |-> NoPath, query |-> <<>>]

with_query_extend(u, q) == [u EXCEPT !.query = u.query \o q]

\* url.with_query(q): the URL with its query string replaced by q
with_query(u, q) == [u EXCEPT !.query = q]

truthy_not_none(q) == ~q.none

\* the truth value of query_: None and the empty dict are false
truthy(q) == ~q.none /\ q.m # <<>>

\* The routes registered with app.router: the parameters each one takes, and
\* whether the resource appends a version to the URLs it builds (a static
\* resource added with append_version=True).
Routes ==
    [item |-> [params |-> {"id"}, versioned |-> FALSE],
     static |-> [params |-> {"filename"}, versioned |-> TRUE]]

VersionQuery == << <<"v", "h">> >>

\* resource.url_for(**params) accepts the call
resource_accepts(router, name, params) == DOMAIN params = router[name].params

\* the URL resource.url_for(**params) returns
resource_url(router, name, params) ==
    [path |-> [name |-> name, params |-> params],
     query |-> IF router[name].versioned THEN VersionQuery ELSE <<>>]

-----------------------------------------------------------------------------
(* Inputs *)

Keys == {"id", "filename"}
RouteNameInputs == DOMAIN Routes \cup {"nope"}

Distinct(p) == \A i, j \in 1..Len(p) : i # j => p[i][1] # p[j][1]

\* **parts: keyword arguments in call order, no keyword twice
PartsInputs ==
    {p \in UNION {[1..k -> Keys \X Values] : k \in 0..MaxParts} : Distinct(p)}

Queries == {<<>>, << <<"active", "true">> >>}

\* query_: None (the default) or a dict
QueryInputs == {[none |-> TRUE, m |-> <<>>]} \cup {[none |-> FALSE, m |-> q] : q \in Queries}

NoQuery == [none |-> TRUE, m |-> <<>>]
NoArgs == [route_name |-> "", query_ |-> NoQuery, parts |-> <<>>, static_file_path |-> <<>>]

NoResult == [kind |-> "none", url |-> NoURL, s |-> <<>>]
UrlResult(u) == [kind |-> "url", url |-> u, s |-> <<>>]
StrResult(s) == [kind |-> "str", url |-> NoURL, s |-> s]

ConfigKeys == {"static_root_key", "static_root_url"}
Configs(R) == UNION {[D -> R] : D \in SUBSET ConfigKeys}

ExampleRoots == {<<"/", "a", "/">>}

App == context["app"]

Callable == pc \in {"idle", "done", "raised"} /\ calls < MaxCalls

-----------------------------------------------------------------------------
(* Initial states: an application set up with its router and with any       *)
(* combination of the two static-root entries; no call made yet.            *)

InitWith(R) ==
    /\ context \in {[app |-> [config |-> c, router |-> Routes]] : c \in Configs(R)}
    /\ pc = "idle"
    /\ fn = ""
    /\ args = NoArgs
    /\ parts_clean = EmptyMap
    /\ idx = 1
    /\ url = NoURL
    /\ static_root = <<>>
    /\ result = NoResult
    /\ exc = ""
    /\ warnings = <<>>
    /\ routerLog = <<>>
    /\ configReads = <<>>
    /\ warnings0 = 0
    /\ calls = 0

Init == InitWith(ExampleRoots)

InitStatic == InitWith(StringsUpTo(MaxRootLen))

-----------------------------------------------------------------------------
(* url_for *)

\* the call, line 34 and line 36
UrlForCall ==
    /\ Callable
    /\ \E name \in RouteNameInputs, p \in PartsInputs, q \in QueryInputs :
          args' = [route_name |-> name, query_ |-> q, parts |-> p,
                   static_file_path |-> <<>>]
    /\ fn' = "url_for"
    /\ parts_clean' = EmptyMap
    /\ idx' = 1
    /\ url' = NoURL
    /\ static_root' = <<>>
    /\ result' = NoResult
    /\ exc' = ""
    /\ routerLog' = <<>>
    /\ configReads' = <<>>
    /\ warnings0' = Len(warnings)
    /\ calls' = calls + 1
    /\ pc' = "uf_loop"
    /\ UNCHANGED <<context, warnings>>

InLoop == pc = "uf_loop" /\ idx <= Len(args.parts)
key == args.parts[idx][1]
val == args.parts[idx][2]

UrlForLoopFrame ==
    UNCHANGED <<context, fn, args, url, static_root, result, warnings,
                routerLog, configReads, warnings0, calls>>

UrlForLoopStr_NoStore ==
    /\ InLoop
    /\ isinstance_str(val)
    /\ idx' = idx + 1
    /\ UNCHANGED <<parts_clean, pc, exc>>
    /\ UrlForLoopFrame

\* one iteration, val a str: lines 38-42 and 51
UrlForLoopStr ==
    /\ InLoop
    /\ isinstance_str(val)
    /\ parts_clean' = Put(parts_clean, key, str(val))
    /\ idx' = idx + 1
    /\ UNCHANGED <<pc, exc>>
    /\ UrlForLoopFrame

\* one iteration, val exactly an int: lines 38, 43-45 and 51
UrlForLoopInt ==
    /\ InLoop
    /\ ~isinstance_str(val)
    /\ type_is_int(val)
    /\ parts_clean' = Put(parts_clean, key, str(val))
    /\ idx' = idx + 1
    /\ UNCHANGED <<pc, exc>>
    /\ UrlForLoopFrame

UrlForLoopRaise_Skip ==
    /\ InLoop
    /\ ~isinstance_str(val)
    /\ ~type_is_int(val)
    /\ idx' = idx + 1
    /\ UNCHANGED <<parts_clean, pc, exc>>
    /\ UrlForLoopFrame

\* one iteration, val anything else: lines 38 and 46-50
UrlForLoopRaise ==
    /\ InLoop
    /\ ~isinstance_str(val)
    /\ ~type_is_int(val)
    /\ exc' = "TypeError"
    /\ pc' = "raised"
    /\ UNCHANGED <<parts_clean, idx>>
    /\ UrlForLoopFrame

LogEntry(name, found, called, params, returned) ==
    [name |-> name, found |-> found, called |-> called, params |-> params,
     returned |-> returned]

\* line 53: app.router[__route_name].url_for(**parts_clean), once the loop is over
UrlForResolve ==
    /\ pc = "uf_loop"
    /\ idx > Len(args.parts)
    /\ LET router == App.router
           name == args.route_name
       IN IF name \notin DOMAIN router
          THEN /\ routerLog' = Append(routerLog,
                                       LogEntry(name, FALSE, FALSE, EmptyMap, NoURL))
               /\ exc' = "KeyError"
               /\ pc' = "raised"
               /\ url' = url
          ELSE IF resource_accepts(router, name, parts_clean)
               THEN /\ url' = resource_url(router, name, parts_clean)
                    /\ routerLog' = Append(routerLog,
                                            LogEntry(name, TRUE, TRUE, parts_clean, url'))
                    /\ pc' = "uf_query"
                    /\ exc' = exc
               ELSE /\ url' = url
                    /\ routerLog' = Append(routerLog,
                                            LogEntry(name, TRUE, TRUE, parts_clean, NoURL))
                    /\ exc' = "ResourceError"
                    /\ pc' = "raised"
    /\ UNCHANGED <<context, fn, args, parts_clean, idx, static_root, result,
                   warnings, configReads, warnings0, calls>>

\* lines 54-55
UrlForQuery ==
    /\ pc = "uf_query"
    /\ url' = IF truthy(args.query_) THEN with_query(url, args.query_.m) ELSE url
    /\ pc' = "uf_return"
    /\ UNCHANGED <<context, fn, args, parts_clean, idx, static_root, result,
                   exc, warnings, routerLog, configReads, warnings0, calls>>

\* line 56
UrlForReturn ==
    /\ pc = "uf_return"
    /\ result' = UrlResult(url)
    /\ pc' = "done"
    /\ UNCHANGED <<context, fn, args, parts_clean, idx, url, static_root,
                   exc, warnings, routerLog, configReads, warnings0, calls>>

-----------------------------------------------------------------------------
(* static_url *)

\* the call and line 69
StaticCall ==
    /\ Callable
    /\ \E p \in StringsUpTo(MaxPathLen) :
          args' = [route_name |-> "", query_ |-> NoQuery, parts |-> <<>>,
                   static_file_path |-> p]
    /\ fn' = "static_url"
    /\ parts_clean' = EmptyMap
    /\ idx' = 1
    /\ url' = NoURL
    /\ static_root' = <<>>
    /\ result' = NoResult
    /\ exc' = ""
    /\ routerLog' = <<>>
    /\ configReads' = <<>>
    /\ warnings0' = Len(warnings)
    /\ calls' = calls + 1
    /\ pc' = "su_lookup"
    /\ UNCHANGED <<context, warnings>>

StaticFrame ==
    UNCHANGED <<context, fn, args, parts_clean, idx, url, routerLog,
                warnings0, calls>>

ReadKey == Append(configReads, "static_root_key")
ReadBoth == configReads \o <<"static_root_key", "static_root_url">>

\* lines 70-71: app[static_root_key] is set
StaticLookupKey ==
    /\ pc = "su_lookup"
    /\ "static_root_key" \in DOMAIN App.config
    /\ static_root' = App.config["static_root_key"]
    /\ configReads' = ReadKey
    /\ pc' = "su_join"
    /\ UNCHANGED <<result, exc, warnings>>
    /\ StaticFrame

StaticLookupDeprecated_First ==
    /\ pc = "su_lookup"
    /\ "static_root_url" \in DOMAIN App.config
    /\ static_root' = App.config["static_root_url"]
    /\ configReads' = Append(configReads, "static_root_url")
    /\ warnings' = Append(warnings, "DeprecationWarning")
    /\ pc' = "su_join"
    /\ UNCHANGED <<result, exc>>
    /\ StaticFrame

StaticLookupDeprecated_NoWarn ==
    /\ pc = "su_lookup"
    /\ "static_root_key" \notin DOMAIN App.config
    /\ "static_root_url" \in DOMAIN App.config
    /\ static_root' = App.config["static_root_url"]
    /\ configReads' = ReadBoth
    /\ pc' = "su_join"
    /\ UNCHANGED <<result, exc, warnings>>
    /\ StaticFrame

\* lines 72-75 and 81-86: the KeyError is caught, app["static_root_url"] is set
StaticLookupDeprecated ==
    /\ pc = "su_lookup"
    /\ "static_root_key" \notin DOMAIN App.config
    /\ "static_root_url" \in DOMAIN App.config
    /\ static_root' = App.config["static_root_url"]
    /\ configReads' = ReadBoth
    /\ warnings' = Append(warnings, "DeprecationWarning")
    /\ pc' = "su_join"
    /\ UNCHANGED <<result, exc>>
    /\ StaticFrame

StaticRaise_KeyError ==
    /\ pc = "su_lookup"
    /\ "static_root_key" \notin DOMAIN App.config
    /\ "static_root_url" \notin DOMAIN App.config
    /\ exc' = "KeyError"
    /\ configReads' = ReadBoth
    /\ pc' = "raised"
    /\ UNCHANGED <<static_root, result, warnings>>
    /\ StaticFrame

\* lines 72-80: both lookups raise KeyError
StaticRaise ==
    /\ pc = "su_lookup"
    /\ "static_root_key" \notin DOMAIN App.config
    /\ "static_root_url" \notin DOMAIN App.config
    /\ exc' = "RuntimeError"
    /\ configReads' = ReadBoth
    /\ pc' = "raised"
    /\ UNCHANGED <<static_root, result, warnings>>
    /\ StaticFrame

\* line 87
StaticReturn ==
    /\ pc = "su_join"
    /\ result' = StrResult(join(static_root, args.static_file_path))
    /\ pc' = "done"
    /\ UNCHANGED <<static_root, exc, warnings, configReads>>
    /\ StaticFrame

-----------------------------------------------------------------------------
(* Specifications *)

NextUrlFor ==
    \/ UrlForCall
    \/ UrlForLoopStr
    \/ UrlForLoopInt
    \/ UrlForLoopRaise
    \/ UrlForResolve
    \/ UrlForQuery
    \/ UrlForReturn

NextStatic ==
    \/ StaticCall
    \/ StaticLookupKey
    \/ StaticLookupDeprecated
    \/ StaticRaise
    \/ StaticReturn

Next == NextUrlFor \/ NextStatic

\* both helpers, called in any order on an application with example roots
Spec == Init /\ [][Next]_vars

\* static_url alone, over every root up to MaxRootLen
SpecStatic == InitStatic /\ [][NextStatic]_vars

-----------------------------------------------------------------------------
(* Vocabulary of the properties, stated without the operators of the model *)

Finished == pc \in {"done", "raised"}
UrlForFinished == fn = "url_for" /\ Finished
UrlForReturned == fn = "url_for" /\ pc = "done"
StaticFinished == fn = "static_url" /\ Finished
StaticReturned == fn = "static_url" /\ pc = "done"

\* a string, a str subclass or a plain int
Acceptable(v) == v.t \in {"str", "strsub", "int"}
AllAcceptable(p) == \A i \in 1..Len(p) : Acceptable(p[i][2])
KeysOf(p) == {p[i][1] : i \in 1..Len(p)}

DigitValue(c) == CHOOSE d \in 0..9 : Digit[d + 1] = c
IsDigit(c) == \E d \in 0..9 : Digit[d + 1] = c

RECURSIVE Decimal(_)
\* the number a sequence of digits denotes
Decimal(s) ==
    IF s = <<>> THEN 0
    ELSE 10 * Decimal(SubSeq(s, 1, Len(s) - 1)) + DigitValue(s[Len(s)])

\* s is the decimal numeral of n: an optional "-", digits, no leading zero
IsNumeralOf(s, n) ==
    LET d == IF n < 0 THEN SubSeq(s, 2, Len(s)) ELSE s
    IN /\ Len(d) > 0
       /\ n < 0 => s[1] = "-"
       /\ \A i \in 1..Len(d) : IsDigit(d[i])
       /\ Len(d) > 1 => d[1] # "0"
       /\ Decimal(d) = (IF n < 0 THEN -n ELSE n)

\* s is the string form of the value v
IsStringFormOf(s, v) ==
    IF v.t \in {"str", "strsub"} THEN s = v.s ELSE IsNumeralOf(s, v.n)

\* the number of "/" at the end, at the start of s
TrailingSlashes(s) ==
    CHOOSE k \in 0..Len(s) :
        /\ \A i \in (Len(s) - k + 1)..Len(s) : s[i] = Slash
        /\ k < Len(s) => s[Len(s) - k] # Slash
LeadingSlashes(s) ==
    CHOOSE k \in 0..Len(s) :
        /\ \A i \in 1..k : s[i] = Slash
        /\ k < Len(s) => s[k + 1] # Slash

Slashes(k) == [i \in 1..k |-> Slash]

HasKey == "static_root_key" \in DOMAIN App.config
HasDeprecated == "static_root_url" \in DOMAIN App.config

\* the root static_url is to use: the configured one, else the deprecated one
ConfiguredRoot ==
    IF HasKey THEN App.config["static_root_key"] ELSE App.config["static_root_url"]

-----------------------------------------------------------------------------
(* C1 *)

\* C1: when every keyword argument of url_for is a str (or str subclass) or a
\* plain int, the call reaches the router (if the route exists) and the
\* parameter map handed to the resource has exactly the keywords as keys, each
\* mapped to the string form of its argument.
C1_ParamsStringified ==
    (fn = "url_for" /\ AllAcceptable(args.parts)) =>
        /\ \A e \in 1..Len(routerLog) :
              routerLog[e].called =>
                 /\ DOMAIN routerLog[e].params = KeysOf(args.parts)
                 /\ \A i \in 1..Len(args.parts) :
                       IsStringFormOf(routerLog[e].params[args.parts[i][1]],
                                      args.parts[i][2])
        /\ (Finished /\ args.route_name \in DOMAIN App.router) =>
              (Len(routerLog) = 1 /\ routerLog[1].called)

C1_Witness ==
    /\ fn = "url_for"
    /\ Len(routerLog) = 1
    /\ routerLog[1].called
    /\ Len(args.parts) = 2
    /\ args.parts[1][2].t = "strsub"
    /\ args.parts[2][2].t = "int"

-----------------------------------------------------------------------------
(* C2 *)

\* C2: a url_for call with a keyword argument that is neither a str nor a
\* plain int (a bool, another int subclass, None) ends by raising TypeError
\* and returns no URL.
C2_InvalidRejected ==
    (UrlForFinished /\ ~AllAcceptable(args.parts)) =>
        (pc = "raised" /\ exc = "TypeError" /\ result = NoResult)

C2_Witness ==
    /\ UrlForFinished
    /\ exc = "TypeError"
    /\ \E i \in 1..Len(args.parts) : args.parts[i][2].t = "bool"

-----------------------------------------------------------------------------
(* C3 *)

\* C3 as claimed: whenever static_root_key is absent from the app, static_url
\* raises RuntimeError and returns no URL.
C3_Original ==
    (StaticFinished /\ ~HasKey) =>
        (pc = "raised" /\ exc = "RuntimeError" /\ result = NoResult)

\* C3 amended: whenever static_root_key and the deprecated "static_root_url"
\* entry are both absent from the app, static_url raises RuntimeError (not
\* KeyError) and returns no URL.
C3_BothAbsentRaises ==
    (StaticFinished /\ ~HasKey /\ ~HasDeprecated) =>
        (pc = "raised" /\ exc = "RuntimeError" /\ result = NoResult)

C3_Witness == StaticFinished /\ ~HasKey /\ ~HasDeprecated /\ exc = "RuntimeError"

-----------------------------------------------------------------------------
(* C4 *)

\* C4: in the string static_url returns, the root (less its trailing slashes)
\* is followed by a "/" that has no "/" right before it and none right after
\* it, and the path (less its leading slashes) follows: one "/" at the join.
C4_OneSlashAtJoin ==
    StaticReturned =>
        LET r == ConfiguredRoot
            p == args.static_file_path
            a == Len(r) - TrailingSlashes(r)
            b == Len(p) - LeadingSlashes(p)
            s == result.s
        IN /\ Len(s) = a + 1 + b
           /\ s[a + 1] = Slash
           /\ a > 0 => s[a] # Slash
           /\ b > 0 => s[a + 2] # Slash

C4_Witness ==
    /\ StaticReturned
    /\ TrailingSlashes(ConfiguredRoot) = 2
    /\ Len(ConfiguredRoot) = 3
    /\ LeadingSlashes(args.static_file_path) = 2
    /\ Len(args.static_file_path) = 3

-----------------------------------------------------------------------------
(* C5 *)

\* C5 as claimed: whenever a query mapping is supplied as query_, the URL
\* returned is the URL the router resolved with that mapping as its query.
C5_Original ==
    (UrlForReturned /\ ~args.query_.none) =>
        /\ result.kind = "url"
        /\ result.url.path = routerLog[1].returned.path
        /\ result.url.query = args.query_.m

\* C5 amended: whenever a non-empty query mapping is supplied as query_, the
\* URL returned is the URL the router resolved with that mapping as its query.
C5_NonEmptyQueryAttached ==
    (UrlForReturned /\ ~args.query_.none /\ args.query_.m # <<>>) =>
        /\ result.kind = "url"
        /\ result.url.path = routerLog[1].returned.path
        /\ result.url.query = args.query_.m

C5_Witness ==
    /\ UrlForReturned
    /\ args.query_.m # <<>>
    /\ routerLog[1].returned.query # <<>>

-----------------------------------------------------------------------------
(* C6 *)

\* C6 as claimed: no step of url_for or static_url changes the context (the
\* app, its configuration, its router), the arguments of the running call or
\* the log of emitted warnings.
C6_Original ==
    [][/\ context' = context
       /\ calls' = calls => args' = args
       /\ warnings' = warnings]_vars

\* C6 amended: no step of url_for or static_url changes the context or the
\* arguments of the running call, and the only change to the log of emitted
\* warnings is the one DeprecationWarning static_url appends when it falls
\* back to the deprecated "static_root_url" entry.
C6_OnlyDeprecationWarning ==
    [][/\ context' = context
       /\ calls' = calls => args' = args
       /\ warnings' # warnings =>
             /\ fn = "static_url"
             /\ ~HasKey /\ HasDeprecated
             /\ warnings' = Append(warnings, "DeprecationWarning")]_vars

C6_Witness ==
    /\ Finished
    /\ calls = 2
    /\ Len(warnings) = 1

-----------------------------------------------------------------------------
(* C7 *)

\* C7: static_url uses static_root_key when it is set, without reading the
\* deprecated entry and without a warning; it uses the deprecated entry only
\* when static_root_key is absent, with exactly one DeprecationWarning emitted
\* before it returns; it raises RuntimeError only when both are absent, with
\* no warning.
C7_LookupOrder ==
    /\ (StaticFinished /\ HasKey) =>
          /\ pc = "done"
          /\ static_root = App.config["static_root_key"]
          /\ configReads = <<"static_root_key">>
          /\ Len(warnings) = warnings0
    /\ (StaticFinished /\ ~HasKey /\ HasDeprecated) =>
          /\ pc = "done"
          /\ static_root = App.config["static_root_url"]
          /\ configReads = <<"static_root_key", "static_root_url">>
    /\ (fn = "static_url" /\ pc \in {"su_join", "done"} /\ ~HasKey) =>
          /\ Len(warnings) = warnings0 + 1
          /\ warnings[Len(warnings)] = "DeprecationWarning"
    /\ (fn = "static_url" /\ exc = "RuntimeError") =>
          /\ ~HasKey /\ ~HasDeprecated
          /\ Len(warnings) = warnings0
    /\ (StaticFinished /\ ~HasKey /\ ~HasDeprecated) => exc = "RuntimeError"
    /\ (fn = "static_url" /\ pc = "su_lookup") => Len(warnings) = warnings0

C7_Witness ==
    /\ StaticReturned
    /\ HasKey /\ HasDeprecated
    /\ App.config["static_root_key"] # App.config["static_root_url"]
    /\ result.s = join(App.config["static_root_key"], args.static_file_path)
    /\ warnings = <<>>

-----------------------------------------------------------------------------
(* C8 *)

\* C8: url_for uses the router at most once per call and only after every
\* keyword argument passed validation; a call with an invalid argument at any
\* position raises TypeError with the router never used, also when the route
\* name is unknown.
C8_ValidateBeforeRouter ==
    fn = "url_for" =>
        /\ Len(routerLog) <= 1
        /\ routerLog # <<>> =>
              /\ AllAcceptable(args.parts)
              /\ idx = Len(args.parts) + 1
              /\ routerLog[1].called => DOMAIN routerLog[1].params = KeysOf(args.parts)
        /\ exc = "TypeError" => routerLog = <<>>
        /\ (Finished /\ ~AllAcceptable(args.parts)) =>
              (exc = "TypeError" /\ routerLog = <<>>)

C8_Witness ==
    /\ UrlForFinished
    /\ exc = "TypeError"
    /\ args.route_name \notin DOMAIN App.router
    /\ Len(args.parts) = 2
    /\ Acceptable(args.parts[1][2])
    /\ ~Acceptable(args.parts[2][2])

-----------------------------------------------------------------------------
(* C9 *)

\* C9: with query_ None or an empty mapping, url_for returns exactly the URL
\* the router resolved, its own query string included; the returned URL
\* differs from the resolved one only for a non-empty mapping.
C9_EmptyQueryKeepsUrl ==
    UrlForReturned =>
        /\ (args.query_.none \/ args.query_.m = <<>>) =>
              result = UrlResult(routerLog[1].returned)
        /\ result.url # routerLog[1].returned =>
              (~args.query_.none /\ args.query_.m # <<>>)

C9_Witness ==
    /\ UrlForReturned
    /\ ~args.query_.none
    /\ args.query_.m = <<>>
    /\ routerLog[1].returned.query # <<>>

-----------------------------------------------------------------------------
(* C10 *)

\* C10: static_url returns (root without its trailing slashes) + "/" + (path
\* without its leading slashes), every other character kept; more or fewer
\* trailing slashes on the root or leading slashes on the path give the same
\* result, and so do the already trimmed root and path.
C10_JoinInsensitive ==
    StaticReturned =>
        LET r == ConfiguredRoot
            p == args.static_file_path
            r0 == SubSeq(r, 1, Len(r) - TrailingSlashes(r))
            p0 == SubSeq(p, LeadingSlashes(p) + 1, Len(p))
        IN /\ result.s = r0 \o <<Slash>> \o p0
           /\ \A k, m \in 0..2 :
                 join(r0 \o Slashes(k), Slashes(m) \o p0) = result.s
           /\ rstrip(r0) = r0
           /\ lstrip(p0) = p0

C10_Witness ==
    /\ StaticReturned
    /\ ConfiguredRoot = <<Slash, "a", Slash>>
    /\ args.static_file_path = <<Slash, "a", Slash>>
    /\ result.s = <<Slash, "a", Slash, "a", Slash>>

====
